---- MODULE Spec2Model ----
(***************************************************************************)
(* A model of the goiter lazy-sequence library: the numeric and time range *)
(* generators of sequence.go and the filtering / windowing operators of    *)
(* filtering.go, each driven by a consumer that may stop at any yield.     *)
(***************************************************************************)
EXTENDS Integers, Sequences, FiniteSets, TLC

VARIABLES
    sys,        \* which generator / operator family this run drives
    pc,         \* position of the running iterator body
    out,        \* the values handed to the consumer's yield, in order
    stopped,    \* TRUE once the consumer's yield has returned false
    T,          \* RangeStep: the element type [bits, signed]
    start,      \* RangeStep: start / RangeTime: from
    stop,       \* RangeStep: stop  / RangeTime: to
    stepSize,   \* RangeStep: stepSize / RangeTime: interval
    kind,       \* RangeStep, RangeTime: which closure the constructor returned
    curr,       \* RangeStep: curr / RangeTime: t
    op,         \* filtering.go: the operator under run
    n,          \* Take, TakeLast, Skip, SkipLast: n
    src,        \* the values of the input iterator, in order
    inf,        \* TRUE when the input iterator repeats src for ever
    pred,       \* Filter: the set of values the predicate accepts
    pulled,     \* how many values the input iterator has produced
    srcState,   \* the input iterator: "idle", "suspended" in its yield, "done"
    stopCalls,  \* how many times the pull cursor's stop() has run
    srcSawStop, \* the input, parked in a yield, got false from it through stop()
    predLog,    \* source positions at which predicate / the seen-set was consulted
    count,      \* Take, Skip: count
    yielded,    \* Distinct: the keys of the yielded map
    idxHead,    \* TakeLast, SkipLast: idxHead
    idxTail,    \* TakeLast, SkipLast: idxTail
    buffer,     \* TakeLast: buffer / SkipLast: ringBuff
    iOut,       \* TakeLast: i of the final loop / Reverse: i
    keySel,     \* DistinctBy, Distinct2By: keySelector
    seqs,       \* Concat: the values of each input iterator seqs[1], seqs[2], ...
    seqIdx,     \* Concat: which input the outer range loop is at
    plan,       \* a composed expression: the operator applications still to run
    results,    \* a composed expression: what each finished application yielded
    runs        \* the earlier runs of the same iterator value: what each yielded

rangeVars == <<T, start, stop, stepSize, curr>>
opParams == <<op, n, src, inf, pred, keySel, seqs>>
pipeVars == <<plan, results, runs>>
opState == <<pulled, srcState, stopCalls, srcSawStop, predLog, count, yielded, idxHead, idxTail, buffer, iOut>>
vars == <<sys, pc, out, stopped, kind, rangeVars, opParams, opState, seqIdx, pipeVars>>

(***************************************************************************)
(* Integer element types.  int8/uint8 keep their 8 bits; the widest types  *)
(* (int64/uint64, and int/uint on 64-bit targets) are modelled with        *)
(* WordBits bits, every 64-bit conversion of the source being a WordBits   *)
(* conversion here.  WordBits exceeds Bits8 + 1, as 64 exceeds the width   *)
(* of every narrower type, so that no narrow maximum equals MaxInt64.      *)
(***************************************************************************)
Bits8 == 8
WordBits == 10

\* how close to the ends of a type's range, and to zero, the inputs are drawn
Edge == 1
\* inputs are kept to progressions of at most MaxYield steps between start and stop
MaxYield == 6

Int8Type == [bits |-> Bits8, signed |-> TRUE]
Uint8Type == [bits |-> Bits8, signed |-> FALSE]
Int64Type == [bits |-> WordBits, signed |-> TRUE]
Uint64Type == [bits |-> WordBits, signed |-> FALSE]

TInt == {Int8Type, Uint8Type, Int64Type, Uint64Type}

Abs(x) == IF x < 0 THEN -x ELSE x

\* v<<bits == 0 for v = 1 exactly when bits is the width of the type
countBits(ty) == ty.bits

\* ones ^ (1 << (bits-1)) for a signed type, all ones for an unsigned one
intMax(ty) == IF ty.signed THEN 2^(countBits(ty) - 1) - 1 ELSE 2^countBits(ty) - 1

intMin(ty) == IF ty.signed THEN -(2^(countBits(ty) - 1)) ELSE 0

\* Go's integer conversion / wrap-around arithmetic: x reduced into the type
Conv(ty, x) ==
    IF ty.signed
    THEN ((x + 2^(ty.bits - 1)) % 2^ty.bits) - 2^(ty.bits - 1)
    ELSE x % 2^ty.bits

int64(x) == Conv(Int64Type, x)
uint64(x) == Conv(Uint64Type, x)
MaxInt64 == intMax(Int64Type)

willOverflowNoSpan(ty, v, step, inc) ==
    IF inc /\ Conv(ty, v + Conv(ty, step)) < v THEN TRUE
    ELSE IF ~inc /\ Conv(ty, v - Conv(ty, step)) > v THEN TRUE
    ELSE FALSE

willOverflow(ty, v, step, inc) ==
    LET tMax == int64(intMax(ty))
        tMin == int64(intMin(ty))
    IN  IF tMax # MaxInt64 /\ step >= uint64(int64(tMax - tMin + 1)) THEN TRUE
        ELSE IF inc /\ Conv(ty, v + Conv(ty, step)) < v THEN TRUE
        ELSE IF ~inc /\ Conv(ty, v - Conv(ty, step)) > v THEN TRUE
        ELSE FALSE

\* inc := true; if start > stop { inc = false }
Inc(a, b) == ~(a > b)

RangeStepKindZeroStep(ty, a, b, s) ==
    IF s < 0 THEN "empty"
    ELSE IF willOverflow(ty, a, uint64(s), Inc(a, b)) THEN "single"
    ELSE "loop"

\* which of its three closures RangeStep returns
RangeStepKind(ty, a, b, s) ==
    IF s <= 0 THEN "empty"
    ELSE IF willOverflow(ty, a, uint64(s), Inc(a, b)) THEN "single"
    ELSE "loop"

\* the loop's exit test after a yield: TRUE when the iterator returns
RangeStepExitNoWrapGuard(ty, a, b, s, c) ==
    LET step == uint64(s) IN
    IF Inc(a, b)
    THEN Conv(ty, c + Conv(ty, step)) >= b
    ELSE Conv(ty, c - Conv(ty, step)) <= b

RangeStepExitClosed(ty, a, b, s, c) ==
    LET step == uint64(s) IN
    IF Inc(a, b)
    THEN LET next == Conv(ty, c + Conv(ty, step))
         IN  next > b \/ next < a \/ next <= c
    ELSE LET next == Conv(ty, c - Conv(ty, step))
         IN  next < b \/ next > a \/ next >= c

RangeStepExitNoStallGuard(ty, a, b, s, c) ==
    LET step == uint64(s) IN
    IF Inc(a, b)
    THEN LET next == Conv(ty, c + Conv(ty, step))
         IN  next >= b \/ next < a
    ELSE LET next == Conv(ty, c - Conv(ty, step))
         IN  next <= b \/ next > a

RangeStepExit(ty, a, b, s, c) ==
    LET step == uint64(s) IN
    IF Inc(a, b)
    THEN LET next == Conv(ty, c + Conv(ty, step))
         IN  next >= b \/ next < a \/ next <= c
    ELSE LET next == Conv(ty, c - Conv(ty, step))
         IN  next <= b \/ next > a \/ next >= c

\* curr = next
RangeStepNext(ty, a, b, s, c) ==
    LET step == uint64(s) IN
    IF Inc(a, b) THEN Conv(ty, c + Conv(ty, step)) ELSE Conv(ty, c - Conv(ty, step))

\* a run of a range generator has no operator of filtering.go in it
NoOperator ==
    /\ op = "none" /\ n = 0 /\ src = <<>> /\ inf = FALSE /\ pred = {}
    /\ pulled = 0 /\ srcState = "idle" /\ stopCalls = 0 /\ predLog = <<>>
    /\ srcSawStop = FALSE
    /\ count = 0 /\ yielded = {} /\ idxHead = -1 /\ idxTail = -1
    /\ buffer = <<>> /\ iOut = 0
    /\ keySel = <<>> /\ seqs = <<>> /\ seqIdx = 0
    /\ plan = <<>> /\ results = <<>> /\ runs = <<>>

(***************************************************************************)
(* Inputs of the numeric range runs.                                       *)
(***************************************************************************)
TestVals == {-2, 3, 5, 8, 100, 120, -120, 200, 201, 250, 251}

Vals(ty) ==
    {v \in intMin(ty)..intMax(ty) :
        \/ v - intMin(ty) <= Edge
        \/ intMax(ty) - v <= Edge
        \/ Abs(v) <= Edge
        \/ v \in TestVals}

Around(x) == {x - 1, x, x + 1}

\* stepSize has its own integer type S: any value up to the widest unsigned maximum
StepVals ==
    {s \in {-1, 0, 1, 2, 10, 50} \cup Around(2^(Bits8 - 1)) \cup Around(2^Bits8)
            \cup Around(2^(WordBits - 1)) \cup {2^WordBits - 2, 2^WordBits - 1} :
        s <= intMax(Uint64Type)}

InitRange ==
    /\ sys = "RangeStep"
    /\ T \in TInt
    /\ start \in Vals(T)
    /\ stop \in Vals(T)
    /\ stepSize \in StepVals
    /\ stepSize > 0 => Abs(stop - start) <= MaxYield * stepSize
    /\ kind = RangeStepKind(T, start, stop, stepSize)
    /\ pc = "run"
    /\ out = <<>>
    /\ stopped = FALSE
    /\ curr = start
    /\ NoOperator

\* Empty[T](): the iterator yields nothing
RangeEmpty ==
    /\ sys = "RangeStep" /\ pc = "run" /\ kind = "empty"
    /\ pc' = "done"
    /\ UNCHANGED <<pipeVars, seqIdx, sys, out, stopped, kind, rangeVars, opParams, opState>>

\* func(yield) { yield(start) }: the consumer's answer is not looked at
RangeSingle ==
    /\ sys = "RangeStep" /\ pc = "run" /\ kind = "single"
    /\ out' = Append(out, start)
    /\ \E ok \in BOOLEAN : stopped' = ~ok
    /\ pc' = "done"
    /\ UNCHANGED <<pipeVars, seqIdx, sys, kind, rangeVars, opParams, opState>>

\* one iteration of the for loop: yield(curr), then the step and its exit test
\* (the yield log is capped one past the longest progression of InitRange)
RangeLoop ==
    /\ sys = "RangeStep" /\ pc = "run" /\ kind = "loop"
    /\ Len(out) <= MaxYield
    /\ out' = Append(out, curr)
    /\ \E ok \in BOOLEAN :
        IF ~ok
        THEN /\ stopped' = TRUE
             /\ pc' = "done"
             /\ curr' = curr
        ELSE /\ stopped' = FALSE
             /\ IF RangeStepExit(T, start, stop, stepSize, curr)
                THEN pc' = "done" /\ curr' = curr
                ELSE pc' = "run" /\ curr' = RangeStepNext(T, start, stop, stepSize, curr)
    /\ UNCHANGED <<pipeVars, seqIdx, sys, kind, T, start, stop, stepSize, opParams, opState>>

NextRange == RangeEmpty \/ RangeSingle \/ RangeLoop

\* the iterator body is ordinary sequential code: a run that can take a step takes it
RangeFair == WF_vars(NextRange)

SpecRange == InitRange /\ [][NextRange]_vars

SpecRangeLive == InitRange /\ [][NextRange]_vars /\ RangeFair

(***************************************************************************)
(* RangeTime.  A time.Time is modelled as an integer instant and a         *)
(* time.Duration as an integer, Add being integer addition; instants and   *)
(* intervals stay far from the ends of time.Time's range.                  *)
(***************************************************************************)
MaxTime == 5
MaxInterval == 3

Before(t, u) == t < u
After(t, u) == t > u
Equal(t, u) == t = u
Add(t, d) == t + d

RangeTimeKind(interval) == IF interval <= 0 THEN "empty" ELSE "loop"

\* from.Before(to) || from.Equal(to)
RangeTimeForward(from, to) == Before(from, to) \/ Equal(from, to)

RangeTimeCondOpen(from, to, t) ==
    IF RangeTimeForward(from, to) THEN Before(t, to) ELSE After(t, to)

\* the condition of whichever for loop runs
RangeTimeCond(from, to, t) ==
    IF RangeTimeForward(from, to)
    THEN Before(t, to) \/ Equal(t, to)
    ELSE After(t, to) \/ Equal(t, to)

\* t = t.Add(interval) or t = t.Add(-interval)
RangeTimeNext(from, to, interval, t) ==
    IF RangeTimeForward(from, to) THEN Add(t, interval) ELSE Add(t, -interval)

InitTime ==
    /\ sys = "RangeTime"
    /\ T = Int64Type
    /\ start \in 0..MaxTime
    /\ stop \in 0..MaxTime
    /\ stepSize \in -1..MaxInterval
    /\ kind = RangeTimeKind(stepSize)
    /\ pc = "run"
    /\ out = <<>>
    /\ stopped = FALSE
    /\ curr = start
    /\ NoOperator

TimeEmpty ==
    /\ sys = "RangeTime" /\ pc = "run" /\ kind = "empty"
    /\ pc' = "done"
    /\ UNCHANGED <<pipeVars, seqIdx, sys, out, stopped, kind, rangeVars, opParams, opState>>

\* the loop condition fails: the iterator returns
TimeExit ==
    /\ sys = "RangeTime" /\ pc = "run" /\ kind = "loop"
    /\ ~RangeTimeCond(start, stop, curr)
    /\ pc' = "done"
    /\ UNCHANGED <<pipeVars, seqIdx, sys, out, stopped, kind, rangeVars, opParams, opState>>

\* one iteration: yield(t), then t = t.Add(+-interval)
TimeLoop ==
    /\ sys = "RangeTime" /\ pc = "run" /\ kind = "loop"
    /\ RangeTimeCond(start, stop, curr)
    /\ out' = Append(out, curr)
    /\ \E ok \in BOOLEAN :
        IF ~ok
        THEN stopped' = TRUE /\ pc' = "done" /\ curr' = curr
        ELSE /\ stopped' = FALSE /\ pc' = "run"
             /\ curr' = RangeTimeNext(start, stop, stepSize, curr)
    /\ UNCHANGED <<pipeVars, seqIdx, sys, kind, T, start, stop, stepSize, opParams, opState>>

NextTime == TimeEmpty \/ TimeExit \/ TimeLoop

SpecTime == InitTime /\ [][NextTime]_vars

(***************************************************************************)
(* The operators of filtering.go over an input iterator.  The input is a   *)
(* restartable iterator over the values of src (repeated for ever when inf *)
(* holds); an operator reads it through iter.Pull: next() resumes the      *)
(* input until it has produced one more value, stop() ends it.             *)
(***************************************************************************)
MaxElem == 2
MaxLen == 3
MaxN == 3
\* next() calls allowed in one run: only a run over an endless input gets there
MaxPulls == MaxLen + 2

\* the zero value of T that make([]T, n) fills the ring buffer with
Zero == 0

Elems == 1..MaxElem
Inputs == UNION {[1..len -> Elems] : len \in 0..MaxLen}
Windowed == {"Take", "TakeLast", "Skip", "SkipLast"}
\* the operators over Iterator2 / by key: their elements are pairs (v1, v2)
PairOps == {"DistinctV1", "DistinctV2", "Distinct2By"}
DistinctFamily == PairOps \cup {"DistinctBy"}
Operators ==
    {"Filter", "Distinct", "OfType", "Sequence", "Reverse", "Concat"}
        \cup Windowed \cup DistinctFamily

Pairs == Elems \X Elems
PairInputs == UNION {[1..len -> Pairs] : len \in 0..MaxLen}

\* keySelector func(T) K and keySelector func(T1, T2) K
KeySelectors == [Elems -> Elems]
KeySelectors2 ==
    {[p \in Pairs |-> p[1] + p[2]], [p \in Pairs |-> IF p[1] = p[2] THEN 0 ELSE 1]}

\* Concat's inputs: up to MaxSeqs iterators; the j-th value of input i is Tag(i, j),
\* so that a value tells which input it came from and where it stood there
MaxSeqs == 3
Tag(i, j) == i * (MaxLen + 1) + j
ConcatInputs ==
    {[i \in 1..Len(lens) |-> [j \in 1..lens[i] |-> Tag(i, j)]] :
        lens \in UNION {[1..m -> 0..MaxLen] : m \in 0..MaxSeqs}}

\* the k-th value the input iterator produces, and whether there is one
SrcAt(s, k) == s[((k - 1) % Len(s)) + 1]
SrcHas(s, isInf, k) == isInf \/ k <= Len(s)

TakeKindZeroOpens(k) == IF k < 0 THEN "empty" ELSE "pull"

\* if n <= 0 { return Empty[T]() }
TakeKind(k) == IF k <= 0 THEN "empty" ELSE "pull"
TakeLastKind(k) == IF k <= 0 THEN "empty" ELSE "pull"
\* if n <= 0 { return Iterator[T](iterator) }
SkipKind(k) == IF k <= 0 THEN "direct" ELSE "pull"
SkipLastKind(k) == IF k <= 0 THEN "direct" ELSE "pull"

OpKind(o, k) ==
    CASE o = "Take" -> TakeKind(k)
      [] o = "TakeLast" -> TakeLastKind(k)
      [] o = "Skip" -> SkipKind(k)
      [] o = "SkipLast" -> SkipLastKind(k)
      [] OTHER -> "pull"

InitOps ==
    /\ sys = "Operator"
    /\ op \in Operators
    /\ n \in IF op \in Windowed THEN -1..MaxN ELSE {0}
    /\ src \in IF op \in PairOps THEN PairInputs
               ELSE IF op = "Concat" THEN {<<>>} ELSE Inputs
    /\ inf \in IF src = <<>> \/ op \in PairOps THEN {FALSE} ELSE BOOLEAN
    /\ pred \in IF op \in {"Filter", "OfType"} THEN SUBSET Elems ELSE {{}}
    /\ keySel \in IF op = "DistinctBy" THEN KeySelectors
                  ELSE IF op = "Distinct2By" THEN KeySelectors2 ELSE {<<>>}
    /\ seqs \in IF op = "Concat" THEN ConcatInputs ELSE {<<>>}
    /\ seqIdx = 0
    /\ plan = <<>> /\ results = <<>> /\ runs = <<>>
    /\ kind = OpKind(op, n)
    /\ pc = "run"
    /\ out = <<>>
    /\ stopped = FALSE
    /\ pulled = 0 /\ srcState = "idle" /\ stopCalls = 0 /\ predLog = <<>>
    /\ srcSawStop = FALSE
    /\ count = 0 /\ yielded = {} /\ idxHead = -1 /\ idxTail = -1
    /\ buffer = IF kind = "pull" /\ op \in {"TakeLast", "SkipLast"}
                THEN [j \in 0..n - 1 |-> Zero] ELSE <<>>
    /\ iOut = 0
    /\ T = Int64Type /\ start = 0 /\ stop = 0 /\ stepSize = 0 /\ curr = 0

\* v, ok := next() with ok false: the input has no further value
Exhausted == srcState = "done" \/ ~SrcHas(src, inf, pulled + 1)

\* the iterator body returns after next() reported the end of the input: the
\* input has returned by itself and the deferred stop() finds nothing to end
ReturnEnded ==
    /\ pc' = "done" /\ stopCalls' = stopCalls + 1 /\ srcState' = "done"
    /\ srcSawStop' = srcSawStop

ReturnNoStop ==
    /\ pc' = "done" /\ stopCalls' = stopCalls /\ srcState' = "suspended"
    /\ srcSawStop' = srcSawStop

\* the iterator body returns while the input is parked in the yield of the value
\* just taken: the deferred stop() makes that yield return false and the input ends
Return ==
    /\ pc' = "done" /\ stopCalls' = stopCalls + 1 /\ srcState' = "done"
    /\ srcSawStop' = TRUE

\* the loop goes round; the input stays parked in its yield
Continue ==
    /\ pc' = "run" /\ stopCalls' = stopCalls /\ srcState' = "suspended"
    /\ srcSawStop' = srcSawStop

FilterIterYieldsAll(p, v, ok) == [evals |-> 1, yield |-> TRUE, ret |-> ~ok]

FilterIterIgnoresStop(p, v, ok) == [evals |-> 1, yield |-> v \in p, ret |-> FALSE]

FilterIterEvalsTwice(p, v, ok) == [evals |-> 2, yield |-> v \in p, ret |-> v \in p /\ ~ok]

\* one round of Filter's loop on the value v: predicate(v) once, then yield(v)
FilterIter(p, v, ok) == [evals |-> 1, yield |-> v \in p, ret |-> v \in p /\ ~ok]

DistinctIterForgets(seen, v, ok) ==
    [looks |-> 1, yield |-> v \notin seen,
     seen |-> IF v \in seen THEN seen \ {v} ELSE seen \cup {v},
     ret |-> v \notin seen /\ ~ok]

DistinctIterNoMark(seen, v, ok) ==
    [looks |-> 1, yield |-> v \notin seen, seen |-> seen, ret |-> v \notin seen /\ ~ok]

\* one round of Distinct's loop: yielded[v] looked up once, then marked and yielded
DistinctIter(seen, v, ok) ==
    [looks |-> 1, yield |-> v \notin seen, seen |-> seen \cup {v},
     ret |-> v \notin seen /\ ~ok]

TakeIterOneMore(cnt, k, ok) ==
    [count |-> IF ok THEN cnt + 1 ELSE cnt, ret |-> ~ok \/ cnt + 1 > k]

\* one round of Take's loop after yield(v) answered ok: count++, count >= n
TakeIter(cnt, k, ok) ==
    [count |-> IF ok THEN cnt + 1 ELSE cnt, ret |-> ~ok \/ cnt + 1 >= k]

SkipIterOffByOne(cnt, k, ok) ==
    [count |-> cnt + 1, yield |-> ~(cnt + 1 < k), ret |-> ~(cnt + 1 < k) /\ ~ok]

\* one round of Skip's loop: count++, count <= n skips, else yield(v)
SkipIter(cnt, k, ok) ==
    [count |-> cnt + 1, yield |-> ~(cnt + 1 <= k), ret |-> ~(cnt + 1 <= k) /\ ~ok]

RingPushFullWhenMeet(h, t, b, k, v) ==
    IF h = -1
    THEN [idxHead |-> 0, idxTail |-> 0, buffer |-> [b EXCEPT ![0] = v],
          full |-> FALSE, yieldVal |-> Zero]
    ELSE IF h = t
    THEN [idxHead |-> (h + 1) % k, idxTail |-> h, buffer |-> [b EXCEPT ![h] = v],
          full |-> TRUE, yieldVal |-> b[h]]
    ELSE [idxHead |-> h, idxTail |-> (t + 1) % k,
          buffer |-> [b EXCEPT ![(t + 1) % k] = v],
          full |-> FALSE, yieldVal |-> Zero]

RingPushOverwritesNewest(h, t, b, k, v) ==
    IF h = -1
    THEN [idxHead |-> 0, idxTail |-> 0, buffer |-> [b EXCEPT ![0] = v],
          full |-> FALSE, yieldVal |-> Zero]
    ELSE IF (h + k - 1) % k = t
    THEN [idxHead |-> (h + 1) % k, idxTail |-> h, buffer |-> [b EXCEPT ![t] = v],
          full |-> TRUE, yieldVal |-> b[h]]
    ELSE [idxHead |-> h, idxTail |-> (t + 1) % k,
          buffer |-> [b EXCEPT ![(t + 1) % k] = v],
          full |-> FALSE, yieldVal |-> Zero]

RingPushKeepsHead(h, t, b, k, v) ==
    IF h = -1
    THEN [idxHead |-> 0, idxTail |-> 0, buffer |-> [b EXCEPT ![0] = v],
          full |-> FALSE, yieldVal |-> Zero]
    ELSE IF (h + k - 1) % k = t
    THEN [idxHead |-> h, idxTail |-> h, buffer |-> [b EXCEPT ![h] = v],
          full |-> TRUE, yieldVal |-> b[h]]
    ELSE [idxHead |-> h, idxTail |-> (t + 1) % k,
          buffer |-> [b EXCEPT ![(t + 1) % k] = v],
          full |-> FALSE, yieldVal |-> Zero]

RingPushYieldsNewest(h, t, b, k, v) ==
    IF h = -1
    THEN [idxHead |-> 0, idxTail |-> 0, buffer |-> [b EXCEPT ![0] = v],
          full |-> FALSE, yieldVal |-> Zero]
    ELSE IF (h + k - 1) % k = t
    THEN [idxHead |-> (h + 1) % k, idxTail |-> h, buffer |-> [b EXCEPT ![h] = v],
          full |-> TRUE, yieldVal |-> v]
    ELSE [idxHead |-> h, idxTail |-> (t + 1) % k,
          buffer |-> [b EXCEPT ![(t + 1) % k] = v],
          full |-> FALSE, yieldVal |-> Zero]

\* the ring buffer takes v: first value, overwrite of the oldest, or append
RingPush(h, t, b, k, v) ==
    IF h = -1
    THEN [idxHead |-> 0, idxTail |-> 0, buffer |-> [b EXCEPT ![0] = v],
          full |-> FALSE, yieldVal |-> Zero]
    ELSE IF (h + k - 1) % k = t
    THEN [idxHead |-> (h + 1) % k, idxTail |-> h, buffer |-> [b EXCEPT ![h] = v],
          full |-> TRUE, yieldVal |-> b[h]]
    ELSE [idxHead |-> h, idxTail |-> (t + 1) % k,
          buffer |-> [b EXCEPT ![(t + 1) % k] = v],
          full |-> FALSE, yieldVal |-> Zero]

TakeLastOutNoTailExit(h, t, k, j, ok) ==
    LET idx == (h + j) % k
    IN  [idx |-> idx, ret |-> ~ok \/ ~(j + 1 < k)]

TakeLastOutIgnoresStop(h, t, k, j, ok) ==
    LET idx == (h + j) % k
    IN  [idx |-> idx, ret |-> idx = t \/ ~(j + 1 < k)]

\* one round of TakeLast's final loop: yield(buffer[idx]), then the two exits
TakeLastOut(h, t, k, j, ok) ==
    LET idx == (h + j) % k
    IN  [idx |-> idx, ret |-> ~ok \/ idx = t \/ ~(j + 1 < k)]

OpEmpty ==
    /\ sys = "Operator" /\ pc = "run" /\ kind = "empty"
    /\ pc' = "done"
    /\ UNCHANGED <<pipeVars, seqIdx, sys, out, stopped, kind, rangeVars, opParams, opState>>

\* Skip / SkipLast with n <= 0 are the input iterator itself: the consumer drives it
DirectStep ==
    /\ sys = "Operator" /\ pc = "run" /\ kind = "direct"
    /\ pulled < MaxPulls
    /\ IF ~SrcHas(src, inf, pulled + 1)
       THEN /\ pc' = "done" /\ srcState' = "done"
            /\ UNCHANGED <<out, stopped, pulled>>
       ELSE /\ pulled' = pulled + 1
            /\ out' = Append(out, SrcAt(src, pulled + 1))
            /\ \E ok \in BOOLEAN :
                /\ stopped' = (stopped \/ ~ok)
                /\ IF ok THEN pc' = "run" /\ srcState' = "running"
                         ELSE pc' = "done" /\ srcState' = "done"
    /\ UNCHANGED <<pipeVars, seqIdx, sys, kind, rangeVars, opParams, stopCalls, srcSawStop, predLog,
                   count,
                   yielded, idxHead, idxTail, buffer, iOut>>

FilterStep ==
    /\ sys = "Operator" /\ op = "Filter" /\ pc = "run" /\ kind = "pull"
    /\ pulled < MaxPulls
    /\ IF Exhausted
       THEN ReturnEnded /\ UNCHANGED <<out, stopped, pulled, predLog>>
       ELSE LET v == SrcAt(src, pulled + 1) IN
            \E ok \in BOOLEAN :
                LET r == FilterIter(pred, v, ok) IN
                /\ pulled' = pulled + 1
                /\ predLog' = predLog \o [j \in 1..r.evals |-> pulled + 1]
                /\ out' = IF r.yield THEN Append(out, v) ELSE out
                /\ stopped' = (stopped \/ (r.yield /\ ~ok))
                /\ IF r.ret THEN Return ELSE Continue
    /\ UNCHANGED <<pipeVars, seqIdx, sys, kind, rangeVars, opParams, count, yielded, idxHead, idxTail,
                   buffer, iOut>>

DistinctStep ==
    /\ sys = "Operator" /\ op = "Distinct" /\ pc = "run" /\ kind = "pull"
    /\ pulled < MaxPulls
    /\ IF Exhausted
       THEN ReturnEnded /\ UNCHANGED <<out, stopped, pulled, predLog, yielded>>
       ELSE LET v == SrcAt(src, pulled + 1) IN
            \E ok \in BOOLEAN :
                LET r == DistinctIter(yielded, v, ok) IN
                /\ pulled' = pulled + 1
                /\ predLog' = predLog \o [j \in 1..r.looks |-> pulled + 1]
                /\ yielded' = r.seen
                /\ out' = IF r.yield THEN Append(out, v) ELSE out
                /\ stopped' = (stopped \/ (r.yield /\ ~ok))
                /\ IF r.ret THEN Return ELSE Continue
    /\ UNCHANGED <<pipeVars, seqIdx, sys, kind, rangeVars, opParams, count, idxHead, idxTail, buffer, iOut>>

TakeStep ==
    /\ sys = "Operator" /\ op = "Take" /\ pc = "run" /\ kind = "pull"
    /\ pulled < MaxPulls
    /\ IF Exhausted
       THEN ReturnEnded /\ UNCHANGED <<out, stopped, pulled, count>>
       ELSE LET v == SrcAt(src, pulled + 1) IN
            \E ok \in BOOLEAN :
                LET r == TakeIter(count, n, ok) IN
                /\ pulled' = pulled + 1
                /\ out' = Append(out, v)
                /\ stopped' = (stopped \/ ~ok)
                /\ count' = r.count
                /\ IF r.ret THEN Return ELSE Continue
    /\ UNCHANGED <<pipeVars, seqIdx, sys, kind, rangeVars, opParams, predLog, yielded, idxHead, idxTail,
                   buffer, iOut>>

SkipStep ==
    /\ sys = "Operator" /\ op = "Skip" /\ pc = "run" /\ kind = "pull"
    /\ pulled < MaxPulls
    /\ IF Exhausted
       THEN ReturnEnded /\ UNCHANGED <<out, stopped, pulled, count>>
       ELSE LET v == SrcAt(src, pulled + 1) IN
            \E ok \in BOOLEAN :
                LET r == SkipIter(count, n, ok) IN
                /\ pulled' = pulled + 1
                /\ count' = r.count
                /\ out' = IF r.yield THEN Append(out, v) ELSE out
                /\ stopped' = (stopped \/ (r.yield /\ ~ok))
                /\ IF r.ret THEN Return ELSE Continue
    /\ UNCHANGED <<pipeVars, seqIdx, sys, kind, rangeVars, opParams, predLog, yielded, idxHead, idxTail,
                   buffer, iOut>>

\* TakeLast's first loop: every value of the input goes into the ring buffer
TakeLastFill ==
    /\ sys = "Operator" /\ op = "TakeLast" /\ pc = "run" /\ kind = "pull"
    /\ pulled < MaxPulls
    /\ IF Exhausted
       THEN /\ IF idxHead < 0
               THEN ReturnEnded
               ELSE /\ pc' = "drain" /\ srcState' = "done" /\ stopCalls' = stopCalls
                    /\ srcSawStop' = srcSawStop
            /\ UNCHANGED <<pulled, idxHead, idxTail, buffer>>
       ELSE LET r == RingPush(idxHead, idxTail, buffer, n, SrcAt(src, pulled + 1)) IN
            /\ pulled' = pulled + 1
            /\ idxHead' = r.idxHead /\ idxTail' = r.idxTail /\ buffer' = r.buffer
            /\ Continue
    /\ UNCHANGED <<pipeVars, seqIdx, sys, out, stopped, kind, rangeVars, opParams, predLog, count,
                   yielded, iOut>>

\* TakeLast's final loop: the buffer from idxHead round to idxTail
TakeLastDrain ==
    /\ sys = "Operator" /\ op = "TakeLast" /\ pc = "drain"
    /\ \E ok \in BOOLEAN :
        LET r == TakeLastOut(idxHead, idxTail, n, iOut, ok) IN
        /\ out' = Append(out, buffer[r.idx])
        /\ stopped' = (stopped \/ ~ok)
        /\ IF r.ret
           THEN ReturnEnded /\ iOut' = iOut
           ELSE /\ pc' = "drain" /\ iOut' = iOut + 1
                /\ UNCHANGED <<stopCalls, srcState, srcSawStop>>
    /\ UNCHANGED <<pipeVars, seqIdx, sys, kind, rangeVars, opParams, pulled, predLog, count, yielded,
                   idxHead, idxTail, buffer>>

SkipLastStep ==
    /\ sys = "Operator" /\ op = "SkipLast" /\ pc = "run" /\ kind = "pull"
    /\ pulled < MaxPulls
    /\ IF Exhausted
       THEN ReturnEnded /\ UNCHANGED <<out, stopped, pulled, idxHead, idxTail, buffer>>
       ELSE LET r == RingPush(idxHead, idxTail, buffer, n, SrcAt(src, pulled + 1)) IN
            \E ok \in BOOLEAN :
                /\ pulled' = pulled + 1
                /\ idxHead' = r.idxHead /\ idxTail' = r.idxTail /\ buffer' = r.buffer
                /\ out' = IF r.full THEN Append(out, r.yieldVal) ELSE out
                /\ stopped' = (stopped \/ (r.full /\ ~ok))
                /\ IF r.full /\ ~ok THEN Return ELSE Continue
    /\ UNCHANGED <<pipeVars, seqIdx, sys, kind, rangeVars, opParams, predLog, count, yielded, iOut>>

\* one round of OfType's loop: the type assertion v.(U), then yield(u)
OfTypeIter(p, v, ok) == [yield |-> v \in p, ret |-> v \in p /\ ~ok]

\* pred stands for the dynamic type U: the values that are instances of it
OfTypeStep ==
    /\ sys = "Operator" /\ op = "OfType" /\ pc = "run"
    /\ pulled < MaxPulls
    /\ IF Exhausted
       THEN ReturnEnded /\ UNCHANGED <<out, stopped, pulled>>
       ELSE LET v == SrcAt(src, pulled + 1) IN
            \E ok \in BOOLEAN :
                LET r == OfTypeIter(pred, v, ok) IN
                /\ pulled' = pulled + 1
                /\ out' = IF r.yield THEN Append(out, v) ELSE out
                /\ stopped' = (stopped \/ (r.yield /\ ~ok))
                /\ IF r.ret THEN Return ELSE Continue
    /\ UNCHANGED <<pipeVars, seqIdx, sys, kind, rangeVars, opParams, predLog, count, yielded,
                   idxHead, idxTail, buffer, iOut>>

SequenceIterYieldsZero(hasMore, ok) == [yield |-> TRUE, ret |-> ~hasMore \/ ~ok]

\* one round of Sequence's loop: if !hasMore { return }; if !yield(v) { return }
SequenceIter(hasMore, ok) == [yield |-> hasMore, ret |-> ~hasMore \/ ~ok]

\* Sequence: the generator hands out the values of src, then the zero value and
\* hasMore = false; count counts its calls
SequenceStep ==
    /\ sys = "Operator" /\ op = "Sequence" /\ pc = "run"
    /\ pulled < MaxPulls
    /\ count' = count + 1
    /\ LET hasMore == SrcHas(src, inf, pulled + 1)
           v == IF hasMore THEN SrcAt(src, pulled + 1) ELSE Zero
       IN  \E ok \in BOOLEAN :
            LET r == SequenceIter(hasMore, ok) IN
            /\ pulled' = IF hasMore THEN pulled + 1 ELSE pulled
            /\ out' = IF r.yield THEN Append(out, v) ELSE out
            /\ stopped' = (stopped \/ (r.yield /\ ~ok))
            /\ pc' = IF r.ret THEN "done" ELSE "run"
    /\ UNCHANGED <<pipeVars, seqIdx, sys, kind, rangeVars, opParams, srcState, stopCalls, srcSawStop,
                   predLog, yielded, idxHead, idxTail, buffer, iOut>>

\* the key an element is told apart by
KeyOf(o, sel, v) ==
    CASE o = "DistinctV1" -> v[1]
      [] o = "DistinctV2" -> v[2]
      [] OTHER -> sel[v]

markAlways(dm, key) == [ok |-> TRUE, dm |-> dm \cup {key}]

\* distinctor.mark: true and the key recorded if the key is new, else false
mark(dm, key) == [ok |-> key \notin dm, dm |-> dm \cup {key}]

\* DistinctV1, DistinctV2, DistinctBy, Distinct2By: if !yielded.mark(key) { continue }
DistinctKeyStep ==
    /\ sys = "Operator" /\ op \in DistinctFamily /\ pc = "run"
    /\ pulled < MaxPulls
    /\ IF Exhausted
       THEN ReturnEnded /\ UNCHANGED <<out, stopped, pulled, yielded>>
       ELSE LET v == SrcAt(src, pulled + 1)
                m == mark(yielded, KeyOf(op, keySel, v))
            IN  \E ok \in BOOLEAN :
                /\ pulled' = pulled + 1
                /\ yielded' = m.dm
                /\ out' = IF m.ok THEN Append(out, v) ELSE out
                /\ stopped' = (stopped \/ (m.ok /\ ~ok))
                /\ IF m.ok /\ ~ok THEN Return ELSE Continue
    /\ UNCHANGED <<pipeVars, seqIdx, sys, kind, rangeVars, opParams, predLog, count, idxHead,
                   idxTail, buffer, iOut>>

\* Reverse's first loop: buffer = append(buffer, v) until next() reports the end
ReverseFill ==
    /\ sys = "Operator" /\ op = "Reverse" /\ pc = "run"
    /\ pulled < MaxPulls
    /\ IF Exhausted
       THEN /\ pc' = "emit" /\ srcState' = "done" /\ iOut' = Len(buffer) - 1
            /\ UNCHANGED <<pulled, buffer, stopCalls, srcSawStop>>
       ELSE /\ pulled' = pulled + 1
            /\ buffer' = Append(buffer, SrcAt(src, pulled + 1))
            /\ iOut' = iOut
            /\ Continue
    /\ UNCHANGED <<pipeVars, seqIdx, sys, out, stopped, kind, rangeVars, opParams, predLog,
                   count, yielded, idxHead, idxTail>>

ReverseOutForward(b, j, ok) == [val |-> b[Len(b) - j], ret |-> ~ok]

\* one round of Reverse's second loop: yield(buffer[i]); the slice is 0-based
ReverseOut(b, j, ok) == [val |-> b[j + 1], ret |-> ~ok]

\* for i := len(buffer) - 1; i >= 0; i--
ReverseEmit ==
    /\ sys = "Operator" /\ op = "Reverse" /\ pc = "emit"
    /\ IF ~(iOut >= 0)
       THEN ReturnEnded /\ UNCHANGED <<out, stopped, iOut>>
       ELSE \E ok \in BOOLEAN :
                LET r == ReverseOut(buffer, iOut, ok) IN
                /\ out' = Append(out, r.val)
                /\ stopped' = (stopped \/ ~ok)
                /\ IF r.ret
                   THEN ReturnEnded /\ iOut' = iOut
                   ELSE /\ pc' = "emit" /\ iOut' = iOut - 1
                        /\ UNCHANGED <<stopCalls, srcState, srcSawStop>>
    /\ UNCHANGED <<pipeVars, seqIdx, sys, kind, rangeVars, opParams, pulled, predLog, count,
                   yielded, idxHead, idxTail, buffer>>

\* for _, seq := range seqs: the next input is started, or there is none left
ConcatNextInput ==
    /\ sys = "Operator" /\ op = "Concat" /\ pc = "run"
    /\ IF seqIdx = 0 THEN TRUE ELSE pulled = Len(seqs[seqIdx])
    /\ IF seqIdx < Len(seqs)
       THEN seqIdx' = seqIdx + 1 /\ pulled' = 0 /\ pc' = "run"
       ELSE pc' = "done" /\ UNCHANGED <<seqIdx, pulled>>
    /\ UNCHANGED <<pipeVars, sys, out, stopped, kind, rangeVars, opParams, srcState, stopCalls, srcSawStop,
                   predLog, count, yielded, idxHead, idxTail, buffer, iOut>>

ConcatIterIgnoresStop(ok) == [ret |-> FALSE]

\* if !yield(v) { return }
ConcatIter(ok) == [ret |-> ~ok]

\* for v := range seq: input seqIdx hands its next value to yield
ConcatYield ==
    /\ sys = "Operator" /\ op = "Concat" /\ pc = "run"
    /\ IF seqIdx >= 1 THEN pulled < Len(seqs[seqIdx]) ELSE FALSE
    /\ \E ok \in BOOLEAN :
        /\ pulled' = pulled + 1
        /\ out' = Append(out, seqs[seqIdx][pulled + 1])
        /\ stopped' = (stopped \/ ~ok)
        /\ pc' = IF ConcatIter(ok).ret THEN "done" ELSE "run"
    /\ UNCHANGED <<pipeVars, seqIdx, sys, kind, rangeVars, opParams, srcState, stopCalls, srcSawStop,
                   predLog, count, yielded, idxHead, idxTail, buffer, iOut>>

NextOps ==
    \/ OpEmpty \/ DirectStep \/ FilterStep \/ DistinctStep \/ TakeStep \/ SkipStep
    \/ TakeLastFill \/ TakeLastDrain \/ SkipLastStep
    \/ OfTypeStep \/ SequenceStep \/ DistinctKeyStep
    \/ ReverseFill \/ ReverseEmit \/ ConcatNextInput \/ ConcatYield

SpecOps == InitOps /\ [][NextOps]_vars

(***************************************************************************)
(* The same iterator value invoked again.  An operator returns a closure;  *)
(* each invocation of the closure runs its body from the top, over a fresh *)
(* cursor on the restartable input.                                        *)
(***************************************************************************)
\* the operators that open a pull cursor on their input
PullOps ==
    {"Filter", "OfType", "Take", "TakeLast", "Skip", "SkipLast", "Distinct", "Reverse"}
        \cup DistinctFamily

FreshRunKeepsSeen(o, k, kd, prev) ==
    [count |-> 0, yielded |-> prev.yielded, idxHead |-> -1, idxTail |-> -1,
     buffer |-> IF kd = "pull" /\ o \in {"TakeLast", "SkipLast"}
                THEN [j \in 0..k - 1 |-> Zero] ELSE <<>>,
     iOut |-> 0]

\* the locals the closure body creates when a run starts (count := 0,
\* make([]T, n), idxHead, idxTail := -1, -1, map[any]bool{}, newDistinctor(),
\* var buffer []T); prev, the locals the run before ended with, plays no part
FreshRun(o, k, kd, prev) ==
    [count |-> 0, yielded |-> {}, idxHead |-> -1, idxTail |-> -1,
     buffer |-> IF kd = "pull" /\ o \in {"TakeLast", "SkipLast"}
                THEN [j \in 0..k - 1 |-> Zero] ELSE <<>>,
     iOut |-> 0]

\* the consumer ranges over the same iterator value a second time
Rerun ==
    /\ sys = "Operator" /\ op \in PullOps /\ pc = "done"
    /\ plan = <<>> /\ runs = <<>>
    /\ runs' = Append(runs, [out |-> out, stopped |-> stopped])
    /\ LET f == FreshRun(op, n, kind,
                        [count |-> count, yielded |-> yielded, idxHead |-> idxHead,
                         idxTail |-> idxTail, buffer |-> buffer, iOut |-> iOut])
       IN  /\ count' = f.count /\ yielded' = f.yielded
           /\ idxHead' = f.idxHead /\ idxTail' = f.idxTail
           /\ buffer' = f.buffer /\ iOut' = f.iOut
    /\ pc' = "run"
    /\ out' = <<>>
    /\ stopped' = FALSE
    /\ pulled' = 0 /\ srcState' = "idle" /\ stopCalls' = 0 /\ srcSawStop' = FALSE
    /\ predLog' = <<>>
    /\ UNCHANGED <<sys, kind, rangeVars, opParams, seqIdx, plan, results>>

NextRerun == NextOps \/ Rerun

SpecRerun == InitOps /\ [][NextRerun]_vars

(***************************************************************************)
(* Composed expressions.  An operator takes its input as an iterator, so   *)
(* the input of one application can be the output of another.  A plan is a *)
(* list of applications; results holds the sequences at hand, S first and  *)
(* then what each finished application yielded, and the application at     *)
(* position k of the plan reads results[j] for the j it names in "from".   *)
(* An application is run by the operator's own actions above, over the     *)
(* values its input yields when driven to the end.                         *)
(***************************************************************************)
App(o, k, from) == [op |-> o, n |-> k, from |-> from]

\* Concat(Take(S, n), Skip(S, n))
ConcatTakeSkip(k) ==
    <<App("Take", k, <<1>>), App("Skip", k, <<1>>), App("Concat", 0, <<2, 3>>)>>

\* TakeLast(S, n), and Reverse(Take(Reverse(S), n))
TakeLastAndReverseTake(k) ==
    <<App("TakeLast", k, <<1>>), App("Reverse", 0, <<1>>), App("Take", k, <<3>>),
      App("Reverse", 0, <<4>>)>>

\* Distinct(Distinct(S))
DistinctTwice == <<App("Distinct", 0, <<1>>), App("Distinct", 0, <<2>>)>>

\* Reverse(Reverse(S))
ReverseTwice == <<App("Reverse", 0, <<1>>), App("Reverse", 0, <<2>>)>>

Plans ==
    {ConcatTakeSkip(k) : k \in -1..MaxN} \cup {TakeLastAndReverseTake(k) : k \in -1..MaxN}
        \cup {DistinctTwice, ReverseTwice}

\* the parameters and the fresh local state of the application a over the results res
Loaded(a, res) ==
    [op |-> a.op, n |-> a.n,
     src |-> IF a.op = "Concat" THEN <<>> ELSE res[a.from[1]],
     seqs |-> IF a.op = "Concat" THEN [i \in 1..Len(a.from) |-> res[a.from[i]]] ELSE <<>>,
     kind |-> OpKind(a.op, a.n),
     buffer |-> IF OpKind(a.op, a.n) = "pull" /\ a.op \in {"TakeLast", "SkipLast"}
                THEN [j \in 0..a.n - 1 |-> Zero] ELSE <<>>]

InitPipe ==
    /\ sys = "Operator"
    /\ plan \in Plans
    /\ \E s \in Inputs : results = <<s>>
    /\ runs = <<>>
    /\ LET l == Loaded(plan[1], results) IN
        /\ op = l.op /\ n = l.n /\ src = l.src /\ seqs = l.seqs /\ kind = l.kind
        /\ buffer = l.buffer
    /\ inf = FALSE /\ pred = {} /\ keySel = <<>> /\ seqIdx = 0
    /\ pc = "run"
    /\ out = <<>>
    /\ stopped = FALSE
    /\ pulled = 0 /\ srcState = "idle" /\ stopCalls = 0 /\ predLog = <<>>
    /\ srcSawStop = FALSE
    /\ count = 0 /\ yielded = {} /\ idxHead = -1 /\ idxTail = -1
    /\ iOut = 0
    /\ T = Int64Type /\ start = 0 /\ stop = 0 /\ stepSize = 0 /\ curr = 0

\* an application was driven to its end: what it yielded is kept, and the next
\* application of the plan, if any, starts afresh over the results so far
StageDone ==
    /\ sys = "Operator" /\ plan # <<>> /\ pc = "done" /\ ~stopped
    /\ results' = Append(results, out)
    /\ IF Len(results) < Len(plan)
       THEN LET l == Loaded(plan[Len(results) + 1], results') IN
            /\ op' = l.op /\ n' = l.n /\ src' = l.src /\ seqs' = l.seqs
            /\ kind' = l.kind /\ buffer' = l.buffer
            /\ seqIdx' = 0
            /\ pc' = "run"
            /\ out' = <<>>
            /\ pulled' = 0 /\ srcState' = "idle" /\ stopCalls' = 0 /\ predLog' = <<>>
            /\ srcSawStop' = FALSE
            /\ count' = 0 /\ yielded' = {} /\ idxHead' = -1 /\ idxTail' = -1
            /\ iOut' = 0
       ELSE /\ pc' = "end"
            /\ UNCHANGED <<op, n, src, seqs, kind, seqIdx, out, opState>>
    /\ UNCHANGED <<sys, stopped, rangeVars, inf, pred, keySel, plan, runs>>

NextPipe ==
    \/ OpEmpty \/ DirectStep \/ DistinctStep \/ TakeStep \/ SkipStep
    \/ TakeLastFill \/ TakeLastDrain
    \/ ReverseFill \/ ReverseEmit \/ ConcatNextInput \/ ConcatYield
    \/ StageDone

SpecPipe == InitPipe /\ [][NextPipe]_vars

(***************************************************************************)
(* Cache over a Filter with a counting predicate, as in                    *)
(* TestIterator2_Cache: Slice(...).Filter(pred).Cache(), iterated several   *)
(* times, in full or broken off.  The wrapper keeps the values produced so *)
(* far (buffer) and its place in the Filter below (pulled); a drive        *)
(* replays the recorded values and then goes on driving the Filter for the *)
(* positions beyond them.  count is the number of the drive, predLog the   *)
(* source positions the predicate was called on since the wrapper was made.*)
(***************************************************************************)
MaxRuns == 3

InitCache ==
    /\ sys = "Operator"
    /\ op = "Cache" /\ n = 0
    /\ src \in Inputs
    /\ inf \in IF src = <<>> THEN {FALSE} ELSE BOOLEAN
    /\ pred \in SUBSET Elems
    /\ keySel = <<>> /\ seqs = <<>> /\ seqIdx = 0
    /\ plan = <<>> /\ results = <<>> /\ runs = <<>>
    /\ kind = "pull"
    /\ pc = "replay"
    /\ out = <<>>
    /\ stopped = FALSE
    /\ pulled = 0 /\ srcState = "idle" /\ stopCalls = 0 /\ predLog = <<>>
    /\ srcSawStop = FALSE
    /\ count = 1 /\ yielded = {} /\ idxHead = -1 /\ idxTail = -1
    /\ buffer = <<>> /\ iOut = 0
    /\ T = Int64Type /\ start = 0 /\ stop = 0 /\ stepSize = 0 /\ curr = 0

\* the recorded values are handed out again; the pipeline below is not touched
CacheReplay ==
    /\ sys = "Operator" /\ op = "Cache" /\ pc = "replay"
    /\ IF iOut < Len(buffer)
       THEN \E ok \in BOOLEAN :
                /\ out' = Append(out, buffer[iOut + 1])
                /\ iOut' = iOut + 1
                /\ stopped' = (stopped \/ ~ok)
                /\ pc' = IF ok THEN "replay" ELSE "done"
       ELSE /\ pc' = IF srcState = "done" THEN "done" ELSE "run"
            /\ UNCHANGED <<out, iOut, stopped>>
    /\ UNCHANGED <<pipeVars, seqIdx, sys, kind, rangeVars, opParams, pulled, srcState,
                   stopCalls, srcSawStop, predLog, count, yielded, idxHead, idxTail, buffer>>

\* beyond the recorded values: one round of the Filter below, whose value, if it
\* hands one on, is recorded and yielded
CachePull ==
    /\ sys = "Operator" /\ op = "Cache" /\ pc = "run"
    /\ pulled < MaxPulls
    /\ IF ~SrcHas(src, inf, pulled + 1)
       THEN /\ pc' = "done" /\ srcState' = "done"
            /\ UNCHANGED <<out, stopped, pulled, predLog, buffer, iOut>>
       ELSE LET v == SrcAt(src, pulled + 1) IN
            \E ok \in BOOLEAN :
                LET r == FilterIter(pred, v, ok) IN
                /\ pulled' = pulled + 1
                /\ predLog' = predLog \o [j \in 1..r.evals |-> pulled + 1]
                /\ srcState' = "suspended"
                /\ IF r.yield
                   THEN /\ buffer' = Append(buffer, v)
                        /\ iOut' = iOut + 1
                        /\ out' = Append(out, v)
                        /\ stopped' = (stopped \/ ~ok)
                        /\ pc' = IF ok THEN "run" ELSE "done"
                   ELSE /\ pc' = "run"
                        /\ UNCHANGED <<buffer, iOut, out, stopped>>
    /\ UNCHANGED <<pipeVars, seqIdx, sys, kind, rangeVars, opParams, stopCalls, srcSawStop,
                   count, yielded, idxHead, idxTail>>

\* the consumer ranges over the cached iterator once more
CacheAgain ==
    /\ sys = "Operator" /\ op = "Cache" /\ pc = "done"
    /\ count < MaxRuns
    /\ count' = count + 1
    /\ pc' = "replay"
    /\ out' = <<>>
    /\ stopped' = FALSE
    /\ iOut' = 0
    /\ UNCHANGED <<pipeVars, seqIdx, sys, kind, rangeVars, opParams, pulled, srcState,
                   stopCalls, srcSawStop, predLog, yielded, idxHead, idxTail, buffer>>

NextCache == CacheReplay \/ CachePull \/ CacheAgain

SpecCache == InitCache /\ [][NextCache]_vars

(***************************************************************************)
(* OrderBy and StableOrderBy: the input is drained into a buffer, the      *)
(* buffer is sorted under the caller's three-way comparator, and the       *)
(* sorted buffer is yielded.  The comparator compares a key of the         *)
(* elements (as the tests compare persons by age), so that different       *)
(* elements can compare equal.                                             *)
(***************************************************************************)
Comparators == {"asc", "desc", "half", "none"}

SortKey(sel, e) ==
    CASE sel = "asc" -> e
      [] sel = "desc" -> 0 - e
      [] sel = "half" -> e \div 2
      [] OTHER -> 0

\* cmp(a, b): negative, zero or positive
Cmp(sel, a, b) == SortKey(sel, a) - SortKey(sel, b)

Perms(k) == {p \in [1..k -> 1..k] : \A i, j \in 1..k : p[i] = p[j] => i = j}

\* the rearrangements of b that are in order under the comparator
SortedPerms(b, sel) ==
    {p \in Perms(Len(b)) : \A i \in 1..Len(b) - 1 : Cmp(sel, b[p[i]], b[p[i + 1]]) <= 0}

\* a sort that is free to reorder elements comparing equal
StablePermsAnyOrder(b, sel) == SortedPerms(b, sel)

\* the one among them that leaves elements comparing equal in their order
StablePerms(b, sel) ==
    {p \in SortedPerms(b, sel) :
        \A i, j \in 1..Len(b) : (i < j /\ Cmp(sel, b[p[i]], b[p[j]]) = 0) => p[i] < p[j]}

SortOutcomes(o, b, sel) == IF o = "StableOrderBy" THEN StablePerms(b, sel) ELSE SortedPerms(b, sel)

OrderOps == {"OrderBy", "StableOrderBy"}

\* StableOrderBy(StableOrderBy(S, cmp), cmp)
StableTwice == <<App("StableOrderBy", 0, <<1>>), App("StableOrderBy", 0, <<2>>)>>

OrderPlans == {<<App("OrderBy", 0, <<1>>)>>, StableTwice}

InitOrder ==
    /\ sys = "Operator"
    /\ plan \in OrderPlans
    /\ \E s \in Inputs : results = <<s>>
    /\ runs = <<>>
    /\ LET l == Loaded(plan[1], results) IN
        /\ op = l.op /\ n = l.n /\ src = l.src /\ seqs = l.seqs /\ kind = l.kind
        /\ buffer = l.buffer
    /\ keySel \in Comparators
    /\ inf = FALSE /\ pred = {} /\ seqIdx = 0
    /\ pc = "run"
    /\ out = <<>>
    /\ stopped = FALSE
    /\ pulled = 0 /\ srcState = "idle" /\ stopCalls = 0 /\ predLog = <<>>
    /\ srcSawStop = FALSE
    /\ count = 0 /\ yielded = {} /\ idxHead = -1 /\ idxTail = -1
    /\ iOut = 0
    /\ T = Int64Type /\ start = 0 /\ stop = 0 /\ stepSize = 0 /\ curr = 0

\* the input is drained into the buffer
OrderFill ==
    /\ sys = "Operator" /\ op \in OrderOps /\ pc = "run"
    /\ IF ~SrcHas(src, inf, pulled + 1)
       THEN /\ pc' = "sort" /\ srcState' = "done"
            /\ UNCHANGED <<pulled, buffer>>
       ELSE /\ pulled' = pulled + 1
            /\ buffer' = Append(buffer, SrcAt(src, pulled + 1))
            /\ pc' = "run" /\ srcState' = "suspended"
    /\ UNCHANGED <<pipeVars, seqIdx, sys, out, stopped, kind, rangeVars, opParams, stopCalls,
                   srcSawStop, predLog, count, yielded, idxHead, idxTail, iOut>>

\* the buffer is sorted under the comparator
OrderSort ==
    /\ sys = "Operator" /\ op \in OrderOps /\ pc = "sort"
    /\ \E p \in SortOutcomes(op, buffer, keySel) :
        buffer' = [i \in 1..Len(buffer) |-> buffer[p[i]]]
    /\ pc' = "emit"
    /\ UNCHANGED <<pipeVars, seqIdx, sys, out, stopped, kind, rangeVars, opParams, pulled,
                   srcState, stopCalls, srcSawStop, predLog, count, yielded, idxHead,
                   idxTail, iOut>>

\* the sorted buffer is yielded front to back
OrderEmit ==
    /\ sys = "Operator" /\ op \in OrderOps /\ pc = "emit"
    /\ IF ~(iOut < Len(buffer))
       THEN pc' = "done" /\ UNCHANGED <<out, stopped, iOut>>
       ELSE \E ok \in BOOLEAN :
                /\ out' = Append(out, buffer[iOut + 1])
                /\ stopped' = (stopped \/ ~ok)
                /\ iOut' = iOut + 1
                /\ pc' = IF ok THEN "emit" ELSE "done"
    /\ UNCHANGED <<pipeVars, seqIdx, sys, kind, rangeVars, opParams, pulled, srcState,
                   stopCalls, srcSawStop, predLog, count, yielded, idxHead, idxTail, buffer>>

NextOrder == OrderFill \/ OrderSort \/ OrderEmit \/ StageDone

SpecOrder == InitOrder /\ [][NextOrder]_vars

(***************************************************************************)
(* All runs together: a run is one drive of one generator or operator.     *)
(***************************************************************************)
Init == InitRange \/ InitTime \/ InitOps

Next == NextRange \/ NextTime \/ NextOps

Spec == Init /\ [][Next]_vars

(***************************************************************************)
(* The arithmetic progression in unbounded integers: start, start +- step, *)
(* ... strictly before stop.                                               *)
(***************************************************************************)
IdealCount(a, b, s) == (Abs(b - a) + s - 1) \div s

IdealRange(a, b, s) ==
    [k \in 1..IdealCount(a, b, s) |-> IF a < b THEN a + (k - 1) * s ELSE a - (k - 1) * s]

FullyDriven == pc = "done" /\ ~stopped

\* start +- step in unbounded integers, and whether the type can hold it
FirstStep == IF start <= stop THEN start + stepSize ELSE start - stepSize
Representable(ty, x) == intMin(ty) <= x /\ x <= intMax(ty)

\* C1: for every element type, start # stop and positive step, a full drive of
\* RangeStep yields exactly start, start +- step, start +- 2*step, ... (unbounded
\* integers) strictly before stop, in that order.
C1_RangeStepProgression ==
    (sys = "RangeStep" /\ FullyDriven /\ stepSize > 0 /\ start # stop)
        => out = IdealRange(start, stop, stepSize)

C3_OverflowYieldsStartOnly ==
    /\ (sys = "RangeStep" /\ stepSize > 0
            /\ (~Representable(T, FirstStep) \/ stepSize >= 2^T.bits))
        => \/ pc = "run" /\ out = <<>>
           \/ pc = "done" /\ out = <<start>>
    /\ (sys = "RangeStep" /\ pc = "done" /\ T = Int8Type
            /\ <<start, stop, stepSize>> \in {<<0, 5, 256>>, <<120, 127, 10>>, <<-120, -128, 10>>})
        => out = <<start>>

C3_Witness ==
    /\ sys = "RangeStep" /\ pc = "done" /\ T = Int8Type
    /\ start = 0 /\ stop = 5 /\ stepSize = 2^Bits8 + 1
    /\ out = <<0>>

\* C4: RangeStep with stepSize <= 0 yields no value at all, for any start and
\* stop, and the run simply ends (there is no error to report).
C4_NonPositiveStepEmpty ==
    (sys = "RangeStep" /\ stepSize <= 0) => (kind = "empty" /\ out = <<>> /\ ~stopped)

C4_Witness ==
    /\ sys = "RangeStep" /\ pc = "done" /\ stepSize = 0 /\ start = 0 /\ stop = 5
    /\ out = <<>>

IdealTimes(from, to, interval) ==
    [k \in 1..(Abs(to - from) \div interval) + 1 |->
        IF from <= to THEN from + (k - 1) * interval ELSE from - (k - 1) * interval]

IsPrefix(p, q) == Len(p) <= Len(q) /\ \A i \in 1..Len(p) : p[i] = q[i]

\* C6: RangeTime(from, to, interval) with interval > 0 yields from + k*interval
\* (from - k*interval when from > to) for k = 0, 1, ... while the value is not
\* past to, so to is yielded exactly when exact stepping reaches it and
\* from = to yields [from]; with interval <= 0 it yields nothing.
C6_RangeTimeClosed ==
    sys = "RangeTime" =>
        /\ stepSize <= 0 => out = <<>>
        /\ stepSize > 0 => IsPrefix(out, IdealTimes(start, stop, stepSize))
        /\ (stepSize > 0 /\ FullyDriven) => out = IdealTimes(start, stop, stepSize)
        /\ (stepSize > 0 /\ FullyDriven /\ start = stop) => out = <<start>>
        /\ (stepSize > 0 /\ FullyDriven)
            => ((\E i \in 1..Len(out) : out[i] = stop) <=> Abs(stop - start) % stepSize = 0)

C6_Witness ==
    /\ sys = "RangeTime" /\ FullyDriven /\ stepSize > 1 /\ start > stop
    /\ Len(out) >= 3 /\ out[Len(out)] = stop

(***************************************************************************)
(* Claims about the operators of filtering.go.                             *)
(***************************************************************************)
\* the first k values the input iterator produces
Stream(k) == [j \in 1..k |-> SrcAt(src, j)]

RECURSIVE SelectIn(_, _)
SelectIn(s, p) ==
    IF s = <<>> THEN <<>>
    ELSE (IF Head(s) \in p THEN <<Head(s)>> ELSE <<>>) \o SelectIn(Tail(s), p)

\* whether the k-th input value is one the operator hands on: accepted by the
\* predicate (Filter), or not seen at an earlier position (Distinct)
IsOutputPos(k) ==
    IF op = "Filter" THEN SrcAt(src, k) \in pred
    ELSE \A j \in 1..k - 1 : SrcAt(src, j) # SrcAt(src, k)

Min(a, b) == IF a <= b THEN a ELSE b

\* C7: Filter(S, p) yields exactly the elements of S that satisfy p, in source
\* order, and evaluates p exactly once on each source element it pulls, in
\* source order.
C7_FilterExact ==
    (sys = "Operator" /\ op = "Filter") =>
        /\ out = SelectIn(Stream(pulled), pred)
        /\ predLog = [j \in 1..pulled |-> j]
        /\ (FullyDriven /\ ~inf) => (pulled = Len(src) /\ out = SelectIn(src, pred))

C7_Witness ==
    /\ sys = "Operator" /\ op = "Filter" /\ FullyDriven /\ ~inf
    /\ Len(src) = MaxLen /\ Len(out) = 2 /\ Len(predLog) = MaxLen

\* C8: for Filter and Distinct, when the consumer signals stop right after the
\* k-th output, the input has produced exactly the elements up to and including
\* the one that became the k-th output; the run has ended, so nothing further is
\* produced and the predicate / seen-set is not consulted again.
C8_EarlyStopNoOverPull ==
    (sys = "Operator" /\ op \in {"Filter", "Distinct"} /\ stopped) =>
        /\ pc = "done" /\ srcState = "done"
        /\ Len(out) >= 1 /\ pulled >= 1
        /\ IsOutputPos(pulled)
        /\ Cardinality({k \in 1..pulled : IsOutputPos(k)}) = Len(out)
        /\ predLog = [j \in 1..pulled |-> j]

C8_Witness ==
    /\ sys = "Operator" /\ op = "Distinct" /\ stopped /\ ~inf
    /\ Len(out) = 2 /\ pulled < Len(src)

\* C9: Take(S, n) with n >= 1 yields exactly the first min(n, len(S)) elements
\* of S in order and never requests an (n+1)-th element: after the n-th yield
\* the input is stopped without producing anything further, also when S is
\* endless.
C9_TakeNoOverPull ==
    (sys = "Operator" /\ op = "Take" /\ n >= 1) =>
        /\ pulled <= n
        /\ out = Stream(pulled)
        /\ pc = "done" => (srcState = "done" /\ stopCalls = 1)
        /\ FullyDriven => out = Stream(IF inf THEN n ELSE Min(n, Len(src)))

C9_Witness ==
    /\ sys = "Operator" /\ op = "Take" /\ inf /\ FullyDriven
    /\ n >= 2 /\ Len(out) = n /\ pulled = n

\* C10: for n <= 0, Take and TakeLast yield nothing and never drive the input
\* (it produces no element); Skip and SkipLast yield exactly the elements of
\* the input, in order.
C10_NonPositiveN ==
    (sys = "Operator" /\ op \in Windowed /\ n <= 0) =>
        /\ op \in {"Take", "TakeLast"}
            => (out = <<>> /\ pulled = 0 /\ srcState = "idle" /\ stopCalls = 0)
        /\ op \in {"Skip", "SkipLast"}
            => /\ out = Stream(pulled)
               /\ FullyDriven => (~inf /\ out = src)

C10_Witness ==
    /\ sys = "Operator" /\ op = "SkipLast" /\ n = 0 /\ FullyDriven
    /\ Len(out) = MaxLen /\ out = src

(***************************************************************************)
(* The windows at the end of a finite input, first occurrences, and the    *)
(* inputs of Concat laid end to end.                                       *)
(***************************************************************************)
Max(a, b) == IF a >= b THEN a ELSE b

LastN(s, k) == SubSeq(s, Len(s) - Min(k, Len(s)) + 1, Len(s))

FirstN(s, k) == SubSeq(s, 1, Min(Max(k, 0), Len(s)))

\* C12: TakeLast(S, n) with n >= 1 over a finite S yields exactly the last
\* min(n, len(S)) elements of S in their original order, each once: all of S
\* when len(S) <= n, nothing when S is empty, also when len(S) is not a
\* multiple of n; and nothing is yielded before S is exhausted.
C12_TakeLastExact ==
    (sys = "Operator" /\ op = "TakeLast" /\ n >= 1 /\ ~inf) =>
        /\ IsPrefix(out, LastN(src, n))
        /\ pc = "run" => out = <<>>
        /\ FullyDriven => out = LastN(src, n)

\* a full drive over an input longer than n whose length is no multiple of n
C12_Witness ==
    /\ sys = "Operator" /\ op = "TakeLast" /\ ~inf /\ FullyDriven
    /\ n >= 2 /\ Len(src) > n /\ Len(src) % n # 0
    /\ out = LastN(src, n) /\ Len(out) = n /\ out # FirstN(src, n)

\* C14: SkipLast(S, n) with n >= 1 over a finite S yields exactly the first
\* max(0, len(S) - n) elements of S in order: nothing when len(S) <= n and S
\* without its trailing n elements otherwise.
C14_SkipLastExact ==
    (sys = "Operator" /\ op = "SkipLast" /\ n >= 1) =>
        /\ out = FirstN(Stream(pulled), pulled - n)
        /\ (FullyDriven /\ ~inf) => out = FirstN(src, Len(src) - n)

C14_Witness ==
    /\ sys = "Operator" /\ op = "SkipLast" /\ ~inf /\ FullyDriven
    /\ n >= 2 /\ Len(src) > n
    /\ out = FirstN(src, Len(src) - n) /\ out # LastN(src, Len(src) - n)

\* the values of s at the positions where a key shows up for the first time
\* (ks[k] is the key of s[k])
RECURSIVE PickFirsts(_, _, _)
PickFirsts(s, ks, k) ==
    IF k > Len(s) THEN <<>>
    ELSE (IF \A j \in 1..k - 1 : ks[j] # ks[k] THEN <<s[k]>> ELSE <<>>)
            \o PickFirsts(s, ks, k + 1)

FirstOccurrences(s, ks) == PickFirsts(s, ks, 1)

\* C15: Distinct(S) yields each distinct value of S exactly once, at the
\* position of its first occurrence: the output is the sequence of first
\* occurrences in source order.
C15_DistinctFirstOccurrences ==
    (sys = "Operator" /\ op = "Distinct") =>
        /\ out = FirstOccurrences(Stream(pulled), Stream(pulled))
        /\ \A i, j \in 1..Len(out) : out[i] = out[j] => i = j
        /\ (FullyDriven /\ ~inf) => out = FirstOccurrences(src, src)

\* a full drive over an input that repeats values after all have been seen
C15_Witness ==
    /\ sys = "Operator" /\ op = "Distinct" /\ ~inf /\ FullyDriven
    /\ Len(src) = MaxLen /\ Len(out) >= 2 /\ Len(out) < Len(src)
    /\ src[Len(src)] = src[1]

KeyOfRun(v) == KeyOf(op, keySel, v)

\* C17: DistinctV1, DistinctV2, DistinctBy and Distinct2By yield, for each key
\* (first component, second component, keySelector result), the first source
\* element carrying it and drop every later element with that key, in source
\* order; the marked keys are those of the elements pulled, one yield per key.
C17_DistinctByKey ==
    (sys = "Operator" /\ op \in DistinctFamily) =>
        /\ out = FirstOccurrences(Stream(pulled), [j \in 1..pulled |-> KeyOfRun(SrcAt(src, j))])
        /\ yielded = {KeyOfRun(SrcAt(src, k)) : k \in 1..pulled}
        /\ \A key \in yielded :
            Cardinality({i \in 1..Len(out) : KeyOfRun(out[i]) = key}) = 1

\* a later, different element with an already marked key has been dropped
C17_Witness ==
    /\ sys = "Operator" /\ op \in {"DistinctV2", "Distinct2By"} /\ FullyDriven
    /\ Len(src) = MaxLen /\ Len(out) = 2
    /\ \E k \in 2..Len(src) :
        /\ src[k] # src[1] /\ KeyOfRun(src[k]) = KeyOfRun(src[1])
        /\ \A i \in 1..Len(out) : out[i] # src[k]

\* the first m sequences of ss laid end to end
RECURSIVE Flatten(_, _)
Flatten(ss, m) == IF m = 0 THEN <<>> ELSE Flatten(ss, m - 1) \o ss[m]

\* C19: Concat(s1, ..., sm) yields all of s1, then all of s2, and so on; input
\* i+1 is not started before input i is exhausted, and when the consumer stops
\* during input i the run ends there: no later input is started and nothing
\* more is yielded.
C19_ConcatInOrder ==
    (sys = "Operator" /\ op = "Concat") =>
        /\ seqIdx = 0 => out = <<>>
        /\ seqIdx >= 1 =>
            out = Flatten(seqs, seqIdx - 1) \o SubSeq(seqs[seqIdx], 1, pulled)
        /\ FullyDriven => out = Flatten(seqs, Len(seqs))
        /\ stopped => (pc = "done" /\ pulled >= 1 /\ out[Len(out)] = Tag(seqIdx, pulled))

\* the consumer stopped inside the second of three non-empty inputs
C19_Witness ==
    /\ sys = "Operator" /\ op = "Concat"
    /\ stopped /\ pc = "done" /\ Len(seqs) = 3 /\ seqIdx = 2
    /\ Len(seqs[1]) >= 2 /\ pulled < Len(seqs[2]) /\ Len(seqs[3]) >= 1
    /\ Len(out) = Len(seqs[1]) + pulled

(***************************************************************************)
(* Relations between composed expressions, read off the results once the   *)
(* whole plan has been driven to its end.                                  *)
(***************************************************************************)
PlanDone == plan # <<>> /\ pc = "end"

Rev(s) == [i \in 1..Len(s) |-> s[Len(s) - i + 1]]

\* C11: for every finite restartable S and every n >= 1,
\* Concat(Take(S, n), Skip(S, n)) yields the same elements in the same order as
\* S; Skip(S, n) yields exactly the elements of S after the first n, and nothing
\* when S has at most n elements.
C11_TakeSkipPartition ==
    (\E k \in 1..MaxN : plan = ConcatTakeSkip(k)) =>
        /\ Len(results) >= 3 =>
            results[3] = SubSeq(results[1], plan[2].n + 1, Len(results[1]))
        /\ PlanDone => results[4] = results[1]

\* both parts are non-empty
C11_Witness ==
    /\ PlanDone /\ \E k \in 1..MaxN : plan = ConcatTakeSkip(k)
    /\ Len(results[2]) >= 1 /\ Len(results[3]) >= 2
    /\ results[4] = results[1] /\ results[2] # results[3]

\* C13: for every finite S and every n, TakeLast(S, n) yields the same sequence
\* as Reverse(Take(Reverse(S), n)).
C13_TakeLastIsReverseTakeReverse ==
    (PlanDone /\ \E k \in -1..MaxN : plan = TakeLastAndReverseTake(k)) =>
        results[2] = results[5]

\* a proper window that is no palindrome, so the two reversals matter
C13_Witness ==
    /\ PlanDone /\ \E k \in 2..MaxN : plan = TakeLastAndReverseTake(k)
    /\ Len(results[1]) > plan[1].n
    /\ results[2] = results[5] /\ Len(results[2]) = plan[1].n
    /\ results[2] # Rev(results[2])

\* C16: Distinct is idempotent: Distinct(Distinct(S)) yields the same sequence
\* as Distinct(S).
C16_DistinctIdempotent ==
    (PlanDone /\ plan = DistinctTwice) => results[3] = results[2]

\* the first Distinct dropped something and kept more than one value
C16_Witness ==
    /\ PlanDone /\ plan = DistinctTwice
    /\ results[3] = results[2] /\ Len(results[2]) >= 2 /\ results[2] # results[1]

\* C18: Reverse(S) over a finite S yields nothing before S is exhausted and then
\* the elements of S back-to-front, so that after k outputs exactly the last k
\* elements of S have been yielded, in reverse order, a full drive yields all of
\* S reversed, and Reverse(Reverse(S)) yields S.
C18_ReverseBackToFront ==
    /\ (sys = "Operator" /\ op = "Reverse" /\ pc \in {"run", "emit", "done"}) =>
        /\ pc = "run" => out = <<>>
        /\ out = Rev(LastN(src, Len(out)))
        /\ FullyDriven => out = Rev(src)
    /\ (PlanDone /\ plan = ReverseTwice) => results[3] = results[1]

\* a round trip over an input that is no palindrome
C18_Witness ==
    /\ PlanDone /\ plan = ReverseTwice
    /\ Len(results[1]) = MaxLen /\ results[2] # results[1] /\ results[3] = results[1]

\* C20: no operator calls the consumer's callback again after it has returned
\* false: in every run of RangeStep, RangeTime, Sequence, Concat, Reverse,
\* Filter, OfType, Take, TakeLast, Skip, SkipLast and the Distinct family, once
\* yield has answered false no step of the run adds a yield call.
C20_NoYieldAfterFalse == [][stopped => (stopped' /\ out' = out)]_vars

\* TakeLast was stopped at the first of several buffered values
C20_Witness ==
    /\ sys = "Operator" /\ op = "TakeLast" /\ stopped /\ pc = "done"
    /\ n >= 2 /\ Len(src) >= 2 /\ Len(out) = 1

(***************************************************************************)
(* Termination and exactness of the numeric ranges.                        *)
(***************************************************************************)
\* C28: a drive of RangeStep terminates for every element type, every start
\* and stop and every positive step (also steps larger than the type's range and
\* steps whose conversion to the element type is zero or negative): after
\* finitely many yields the iterator returns.
C28_RangeStepTerminates == <>(pc = "done")

\* a full drive with a step that converts to zero or a negative number
C28_Witness ==
    /\ sys = "RangeStep" /\ FullyDriven /\ stepSize > 0 /\ Conv(T, stepSize) <= 0
    /\ Len(out) >= 1

\* C29: the overflow guard is exact: willOverflow(v, step, inc) is true if and
\* only if v + step (inc) or v - step (not inc), in unbounded integers, is not
\* representable in v's type, for every width, signed and unsigned; for the
\* 64-bit unsigned type Range(0, 3) therefore yields 0, 1, 2.
C29_WillOverflowExact ==
    (sys = "RangeStep" /\ stepSize > 0) =>
        /\ willOverflow(T, start, uint64(stepSize), Inc(start, stop))
            <=> ~Representable(T, FirstStep)
        /\ (FullyDriven /\ T = Uint64Type /\ <<start, stop, stepSize>> = <<0, 3, 1>>)
            => out = <<0, 1, 2>>

\* C30: the half-open interval is empty when start = stop: Range(x, x) and
\* RangeStep(x, x, step) with step > 0 yield no value.
C30_EmptyWhenStartEqualsStop ==
    (sys = "RangeStep" /\ stepSize > 0 /\ start = stop) => out = <<>>

\* C23: Sequence(gen) yields the generator's values in the order produced and
\* calls gen exactly once per yielded value plus at most one final call, the one
\* that reports exhaustion; after that call, and after the consumer's stop, the
\* run is over (gen is not called again), and every value obtained from gen has
\* been offered to the consumer.
C23_SequenceGeneratorCalls ==
    (sys = "Operator" /\ op = "Sequence") =>
        /\ out = Stream(pulled)
        /\ count \in {Len(out), Len(out) + 1}
        /\ count = Len(out) + 1 => (pc = "done" /\ ~stopped /\ ~inf /\ pulled = Len(src))
        /\ stopped => (pc = "done" /\ count = Len(out))
        /\ FullyDriven => (out = src /\ count = Len(src) + 1)

\* a full drive: one call per value and the call that reported the end
C23_Witness ==
    /\ sys = "Operator" /\ op = "Sequence" /\ FullyDriven
    /\ Len(src) = MaxLen /\ out = src /\ count = MaxLen + 1

(***************************************************************************)
(* The ring buffer of TakeLast and SkipLast.                               *)
(***************************************************************************)
\* C26: SkipLast(S, n) with n >= 1 is a delay line of n: a step that pulls source
\* element j yields nothing when j <= n and exactly one value, source element
\* j - n, when j > n; a step that pulls nothing (the source is exhausted)
\* yields nothing.
C26_SkipLastDelayLine ==
    [][(sys = "Operator" /\ op = "SkipLast" /\ n >= 1) =>
        IF pulled' = pulled + 1
        THEN IF pulled' > n
             THEN out' = Append(out, SrcAt(src, pulled' - n))
             ELSE out' = out
        ELSE pulled' = pulled /\ out' = out]_vars

\* an endless source: two values out after four values in, with n = 2
C26_Witness ==
    /\ sys = "Operator" /\ op = "SkipLast" /\ inf /\ pc = "run"
    /\ n = 2 /\ pulled = 4 /\ Len(out) = 2

\* the number of live elements between idxHead and idxTail, going round
Live == ((idxTail - idxHead + n) % n) + 1

\* C27: for every n >= 1, after m >= 1 source elements have gone into the ring
\* buffer of TakeLast / SkipLast, idxHead and idxTail are in 0..n-1, the circular
\* range idxHead..idxTail holds exactly min(m, n) elements, and these are the
\* most recent min(m, n) source elements in arrival order.
C27_RingBufferInvariant ==
    (sys = "Operator" /\ op \in {"TakeLast", "SkipLast"} /\ n >= 1 /\ pulled >= 1) =>
        /\ idxHead \in 0..n - 1 /\ idxTail \in 0..n - 1
        /\ Live = Min(pulled, n)
        /\ \A j \in 0..Live - 1 :
            buffer[(idxHead + j) % n] = SrcAt(src, pulled - Live + 1 + j)

\* the buffer has wrapped: the oldest value was overwritten more than once
C27_Witness ==
    /\ sys = "Operator" /\ op = "TakeLast" /\ n = 2 /\ pulled >= 4
    /\ idxHead = 0 /\ idxTail = 1 /\ buffer[0] # buffer[1]

(***************************************************************************)
(* The pull cursor an operator opens on its input.                         *)
(***************************************************************************)
\* C25: every operator that opens a pull cursor on its input releases it exactly
\* once on every exit path (input exhausted, consumer stop, n reached) and not
\* before: when the operator's run has returned, stop() has run once and the
\* input's run has ended, and an input that was parked in a yield with more to
\* produce has seen that yield return false.
C25_CursorReleasedOnce ==
    (sys = "Operator" /\ op \in PullOps /\ kind = "pull") =>
        /\ stopCalls = IF pc = "done" THEN 1 ELSE 0
        /\ pc = "done" => srcState = "done"
        /\ (pc = "done" /\ (inf \/ pulled < Len(src))) => srcSawStop
        /\ srcSawStop => (pc = "done" /\ pulled >= 1)

\* Take returned because n was reached, with the input parked mid-production
C25_Witness ==
    /\ sys = "Operator" /\ op = "Take" /\ pc = "done" /\ ~stopped
    /\ n >= 2 /\ pulled = n /\ n < Len(src)
    /\ stopCalls = 1 /\ srcState = "done" /\ srcSawStop

\* C24: runs of one operator value are independent: a second invocation of the
\* same Filter, OfType, Take, Skip, TakeLast, SkipLast, Distinct-family or
\* Reverse iterator over a restartable input, also after an early-stopped first
\* run, yields the same sequence as the first: each run's output is a prefix of
\* the other's as far as the consumer let them go, and two full drives agree.
C24_RunsIndependent ==
    (sys = "Operator" /\ runs # <<>>) =>
        /\ IsPrefix(out, runs[1].out) \/ IsPrefix(runs[1].out, out)
        /\ FullyDriven => IsPrefix(runs[1].out, out)
        /\ (FullyDriven /\ ~runs[1].stopped) => out = runs[1].out

\* Distinct driven in full after a first run that was stopped early
C24_Witness ==
    /\ sys = "Operator" /\ op = "Distinct" /\ runs # <<>> /\ FullyDriven
    /\ runs[1].stopped /\ Len(runs[1].out) >= 1
    /\ Len(out) > Len(runs[1].out) /\ Len(out) < Len(src)

\* C21: for a Cache-wrapped Filter, over any sequence of full and early-broken
\* iterations of the cached iterator, the predicate is called at most once per
\* source element in total, and every iteration yields a prefix of one and the
\* same sequence, the one a full iteration yields (the accepted elements).
C21_CacheAtMostOnce ==
    (sys = "Operator" /\ op = "Cache") =>
        /\ \A i, j \in 1..Len(predLog) : predLog[i] = predLog[j] => i = j
        /\ IsPrefix(out, SelectIn(Stream(pulled), pred))
        /\ (FullyDriven /\ ~inf) => out = SelectIn(src, pred)

\* a later iteration, driven in full, after the whole source went through
C21_Witness ==
    /\ sys = "Operator" /\ op = "Cache" /\ count >= 2 /\ FullyDriven /\ ~inf
    /\ Len(src) = MaxLen /\ Len(predLog) = MaxLen
    /\ Len(out) >= 1 /\ Len(out) < MaxLen

\* how often e occurs in s
Occurrences(s, e) == Cardinality({i \in 1..Len(s) : s[i] = e})

\* the elements of s whose sort key is k, in the order they have in s
RECURSIVE WithKey(_, _, _)
WithKey(s, sel, k) ==
    IF s = <<>> THEN <<>>
    ELSE (IF SortKey(sel, Head(s)) = k THEN <<Head(s)>> ELSE <<>>)
            \o WithKey(Tail(s), sel, k)

\* C22: a full drive of OrderBy or StableOrderBy yields a permutation of the
\* source elements in non-decreasing order under the comparator; StableOrderBy
\* keeps elements that compare equal in their original relative order, and
\* StableOrderBy applied with the same comparator to its own output yields an
\* identical sequence.
C22_OrderByPermutationSorted ==
    /\ (sys = "Operator" /\ op \in OrderOps /\ pc = "done" /\ ~stopped) =>
        /\ Len(out) = Len(src)
        /\ \A e \in Elems : Occurrences(out, e) = Occurrences(src, e)
        /\ \A i \in 1..Len(out) - 1 : Cmp(keySel, out[i], out[i + 1]) <= 0
        /\ op = "StableOrderBy" =>
            \A e \in Elems :
                WithKey(out, keySel, SortKey(keySel, e)) = WithKey(src, keySel, SortKey(keySel, e))
    /\ (PlanDone /\ plan = StableTwice) => results[3] = results[2]

\* different elements that compare equal, out of order in the source
C22_Witness ==
    /\ PlanDone /\ plan = StableTwice /\ keySel = "none"
    /\ Len(results[1]) = MaxLen /\ results[1][1] > results[1][2]
    /\ results[2] = results[1] /\ results[3] = results[2]

====
